---- MODULE Spec2Model ----
(***************************************************************************)
(* Directory dependency graphs of doxygen (dhebbeker fork).                *)
(*                                                                         *)
(* Two generators are modelled:                                            *)
(*   - writeDotDirDepGraph        (src/src/dotdirdeps.cpp, lines 677-1115) *)
(*     the revision with the tuple (relation, inherited flag);             *)
(*   - writeDotDirDependencyGraph (src/unnamed/part_003), the revision     *)
(*     with the property map and the limited tree roots.                   *)
(* Both read the directory tree and the UsedDir lists and extend the       *)
(* process-wide registry Doxygen::dirRelations.                            *)
(***************************************************************************)
EXTENDS Integers, Sequences, FiniteSets, TLC

VARIABLES
  tree,          \* tree[d]: parent of directory d, NoDir for a root (DirDef::parent)
  maxSuccessor,  \* Config_getInt(MAX_DOT_GRAPH_SUCCESSOR)
  maxAncestor,   \* Config_getInt(MAX_DOT_GRAPH_ANCESTOR)
  usedDirs,      \* usedDirs[d]: the UsedDir entries of d, in insertion order
  dirRelations,  \* Doxygen::dirRelations, in insertion order
  out,           \* the statements written by the last graph generation
  gen,           \* what the last generation was asked and what it computed
  threads        \* generations which run at the same time: their position in getDependencies

vars == <<tree, maxSuccessor, maxAncestor, usedDirs, dirRelations, out, gen, threads>>

----------------------------------------------------------------------------
(* Bounds of the model *)

MaxLimit == 1
MaxFileDeps == 2
MaxGenerations == 2

----------------------------------------------------------------------------
(* The directory tree *)

NoDir == 0

\* root -> {A -> {B, C}, D} with root = 1, A = 2, B = 3, C = 4, D = 5
ScenarioTree == <<NoDir, 1, 2, 2, 1>>
\* two trees: 1 -> 2 -> 3 and 4 -> 5
ForestTree == <<NoDir, 1, 2, NoDir, 4>>

Trees == {ScenarioTree, ForestTree}

Dirs == DOMAIN tree

parent(d) == tree[d]

RECURSIVE level(_)
level(d) == IF parent(d) = NoDir THEN 0 ELSE level(parent(d)) + 1

RECURSIVE SetToSortedSeq(_)
SetToSortedSeq(S) ==
  IF S = {} THEN <<>>
  ELSE LET m == CHOOSE x \in S : \A y \in S : x <= y
       IN <<m>> \o SetToSortedSeq(S \ {m})

subDirs(d) == SetToSortedSeq({c \in Dirs : parent(c) = d})

isCluster(d) == Len(subDirs(d)) > 0

dirCount(d) == d

RECURSIVE ancestorsOf(_)
ancestorsOf(d) == IF parent(d) = NoDir THEN {} ELSE {parent(d)} \cup ancestorsOf(parent(d))

successorsOf(d) == {s \in Dirs : d \in ancestorsOf(s)}

----------------------------------------------------------------------------
(* UsedDir: usage of one dependee by one dependent *)

NewUsedDir(dir) ==
  [dir |-> dir, nrefs |-> 0, SODO |-> FALSE, SODI |-> FALSE, SIDO |-> FALSE, SIDI |-> FALSE]

addFileDep(u, isInheritedByDependent, isInheritedByDependee) ==
  [u EXCEPT !.nrefs = @ + 1,
            !.SODO = @ \/ (~isInheritedByDependent /\ ~isInheritedByDependee),
            !.SODI = @ \/ (~isInheritedByDependent /\ isInheritedByDependee),
            !.SIDO = @ \/ (isInheritedByDependent /\ ~isInheritedByDependee),
            !.SIDI = @ \/ (isInheritedByDependent /\ isInheritedByDependee)]

isAllDependentsInherited(u) == ~u.SODO /\ ~u.SODI

isAllDependeesInherited(u, checkAlsoInheritedDependents) ==
  ~u.SODO /\ (~checkAlsoInheritedDependents \/ ~u.SIDO)

findUsedDir(list, dir) ==
  LET idx == {i \in 1..Len(list) : list[i].dir = dir}
  IN IF idx = {} THEN 0 ELSE CHOOSE i \in idx : TRUE

addUsesDependency(list, dir, inheritedByDependent, inheritedByDependee) ==
  LET i == findUsedDir(list, dir)
  IN IF i = 0
     THEN Append(list, addFileDep(NewUsedDir(dir), inheritedByDependent, inheritedByDependee))
     ELSE [list EXCEPT ![i] = addFileDep(@, inheritedByDependent, inheritedByDependee)]

RECURSIVE SumRefs(_)
SumRefs(list) == IF list = <<>> THEN 0 ELSE Head(list).nrefs + SumRefs(Tail(list))

RECURSIVE SumOver(_, _)
SumOver(f, S) ==
  IF S = {} THEN 0
  ELSE LET d == CHOOSE x \in S : TRUE IN SumRefs(f[d]) + SumOver(f, S \ {d})

NumFileDeps == SumOver(usedDirs, Dirs)

----------------------------------------------------------------------------
(* Drawing properties and their styles *)

Prop(inc, orph, trunc, orig, peri) ==
  [isIncomplete |-> inc, isOrphaned |-> orph, isTruncated |-> trunc,
   isOriginal |-> orig, isPeriperal |-> peri]

DefaultProp == Prop(FALSE, FALSE, FALSE, FALSE, FALSE)

getDirectoryBackgroundColor(depthIndex) == (depthIndex % 9) + 1

\* mutant: the test for a truncated directory comes first and hides the test for both
getDirectoryBorderColorTruncatedFirst(property) ==
  IF property.isTruncated THEN "red"
  ELSE IF property.isOrphaned THEN "grey75"
  ELSE "black"

getDirectoryBorderColor(property) ==
  IF property.isTruncated /\ property.isOrphaned THEN "darkorchid3"
  ELSE IF property.isTruncated THEN "red"
  ELSE IF property.isOrphaned THEN "grey75"
  ELSE "black"

getDirectoryBorderStyle(property) ==
  (IF ~property.isPeriperal THEN <<"filled">> ELSE <<>>)
  \o (IF property.isOriginal THEN <<"bold">> ELSE <<>>)
  \o (IF property.isIncomplete THEN <<"dashed">> ELSE <<>>)

----------------------------------------------------------------------------
(* Statements of the graph description *)

Stmt(kind, dir, dst, label, property, headlabel, href) ==
  [kind |-> kind, dir |-> dir, dst |-> dst, label |-> label,
   style |-> IF kind \in {"node", "cluster"} THEN getDirectoryBorderStyle(property) ELSE <<>>,
   fillcolor |-> IF kind \in {"node", "cluster"} THEN getDirectoryBackgroundColor(level(dir)) ELSE 0,
   color |-> IF kind \in {"node", "cluster"} THEN getDirectoryBorderColor(property) ELSE "",
   headlabel |-> headlabel, href |-> href, prop |-> property]

NoName == <<>>

NodeStmt(d, property) == Stmt("node", d, NoDir, d, property, 0, NoName)
ClusterStmt(d, property, isAncestor) ==
  Stmt("cluster", d, NoDir, IF isAncestor THEN d ELSE NoDir, property, 0, NoName)
PlainStmt(d) == Stmt("plain", d, NoDir, d, DefaultProp, 0, NoName)
CloseStmt == Stmt("close", NoDir, NoDir, NoDir, DefaultProp, 0, NoName)
EdgeStmt(src, dst, nrefs, href) == Stmt("edge", src, dst, NoDir, DefaultProp, nrefs, href)

----------------------------------------------------------------------------
(* The relation registry Doxygen::dirRelations *)

Digit(n) == <<"0", "1", "2", "3", "4", "5", "6", "7", "8", "9">>[n + 1]

RECURSIVE Decimal(_)
Decimal(n) == IF n < 10 THEN <<Digit(n)>> ELSE Append(Decimal(n \div 10), Digit(n % 10))

RECURSIVE ZeroPad(_, _)
ZeroPad(s, width) == IF Len(s) >= width THEN s ELSE ZeroPad(<<"0">> \o s, width)

\* sprintf("dir_%06d_%06d", a, b)
relationName(a, b) ==
  <<"dir_">> \o ZeroPad(Decimal(a), 6) \o <<"_">> \o ZeroPad(Decimal(b), 6)

DirRelation(name, src, dst) == [name |-> name, src |-> src, dst |-> dst]

\* mutant: the lookup never finds a record
findRelationNever(reg, name) == 0

\* mutant: any record of the registry is taken for the relation looked up
findRelationAny(reg, name) == IF Len(reg) > 0 THEN 1 ELSE 0

findRelation(reg, name) ==
  LET idx == {i \in 1..Len(reg) : reg[i].name = name}
  IN IF idx = {} THEN 0 ELSE CHOOSE i \in idx : \A j \in idx : j <= i

\* the UsedDir a relation points to
destination(relation) == usedDirs[relation.dst[1]][relation.dst[2]]

----------------------------------------------------------------------------
(* writeDotDirDepGraph and its helpers (src/src/dotdirdeps.cpp) *)

\* mutant: the drawn directory is not added to the list of directories in the graph
drawDirectoryUnlisted(st, directory, property) ==
  [st EXCEPT !.out = Append(@, NodeStmt(directory, property))]

drawDirectory(st, directory, property) ==
  [st EXCEPT !.out = Append(@, NodeStmt(directory, property)),
             !.dirsInGraph = @ \cup {directory}]

\* mutant: the border is taken to lie below the limit
isBelowLowerVisibilityBorder(directory, startLevel) ==
  (level(directory) - startLevel) > maxSuccessor

\* mutant: the border is taken to lie one level too deep
isAtLowerVisibilityBorderOffByOne(directory, startLevel) ==
  (level(directory) - startLevel) = maxSuccessor + 1

isAtLowerVisibilityBorder(directory, startLevel) ==
  (level(directory) - startLevel) = maxSuccessor

\* mutant: the cluster is closed right after it was opened
openClusterAndClose(st, directory, directoryProperty, isAncestor) ==
  IF isAncestor
  THEN [st EXCEPT !.out = @ \o <<ClusterStmt(directory, directoryProperty, TRUE), CloseStmt>>]
  ELSE [st EXCEPT !.out = @ \o <<ClusterStmt(directory, directoryProperty, FALSE),
                                  PlainStmt(directory), CloseStmt>>,
                  !.dirsInGraph = @ \cup {directory}]

openCluster(st, directory, directoryProperty, isAncestor) ==
  IF isAncestor
  THEN [st EXCEPT !.out = Append(@, ClusterStmt(directory, directoryProperty, TRUE))]
  ELSE [st EXCEPT !.out = @ \o <<ClusterStmt(directory, directoryProperty, FALSE),
                                  PlainStmt(directory)>>,
                  !.dirsInGraph = @ \cup {directory}]

RECURSIVE getDependenciesFrom(_, _, _, _)
getDependenciesFrom(st, dependent, isLeaf, i) ==
  IF i > Len(usedDirs[dependent]) THEN st
  ELSE
    LET usedDirectory == usedDirs[dependent][i]
        dependee == usedDirectory.dir
    IN IF isLeaf \/ ~isAllDependentsInherited(usedDirectory)
       THEN
         LET name == relationName(dirCount(dependent), dirCount(dependee))
             found == findRelation(st.reg, name)
             reg1 == IF found = 0
                     THEN Append(st.reg, DirRelation(name, dependent, <<dependent, i>>))
                     ELSE st.reg
             dependency == IF found = 0 THEN Len(reg1) ELSE found
             st1 == [st EXCEPT !.reg = reg1,
                               !.deps = Append(@, [relation |-> dependency,
                                                   inherited |-> isAllDependeesInherited(usedDirectory, isLeaf)])]
         IN getDependenciesFrom(st1, dependent, isLeaf, i + 1)
       ELSE getDependenciesFrom(st, dependent, isLeaf, i + 1)

\* mutant: the dependencies of a directory drawn as a node are not collected
getDependenciesOfClustersOnly(st, dependent, isLeaf) ==
  IF isLeaf THEN st ELSE getDependenciesFrom(st, dependent, isLeaf, 1)

\* mutant: the collected dependencies are inserted twice
getDependenciesInsertedTwice(st, dependent, isLeaf) ==
  LET r == getDependenciesFrom(st, dependent, isLeaf, 1)
  IN [r EXCEPT !.deps = @ \o SubSeq(r.deps, Len(st.deps) + 1, Len(r.deps))]

\* mutant: a new relation is put in front of the registry
RECURSIVE getDependenciesPrependingFrom(_, _, _, _)
getDependenciesPrependingFrom(st, dependent, isLeaf, i) ==
  IF i > Len(usedDirs[dependent]) THEN st
  ELSE
    LET usedDirectory == usedDirs[dependent][i]
        dependee == usedDirectory.dir
    IN IF isLeaf \/ ~isAllDependentsInherited(usedDirectory)
       THEN
         LET name == relationName(dirCount(dependent), dirCount(dependee))
             found == findRelation(st.reg, name)
             reg1 == IF found = 0
                     THEN <<DirRelation(name, dependent, <<dependent, i>>)>> \o st.reg
                     ELSE st.reg
             dependency == IF found = 0 THEN 1 ELSE found
             st1 == [st EXCEPT !.reg = reg1,
                               !.deps = Append(@, [relation |-> dependency,
                                                   inherited |-> isAllDependeesInherited(usedDirectory, isLeaf)])]
         IN getDependenciesPrependingFrom(st1, dependent, isLeaf, i + 1)
       ELSE getDependenciesPrependingFrom(st, dependent, isLeaf, i + 1)

getDependenciesPrepending(st, dependent, isLeaf) ==
  getDependenciesPrependingFrom(st, dependent, isLeaf, 1)

\* mutant: the entries of a truncated directory are not collected
getDependenciesNotOfTruncated(st, dependent, isLeaf) ==
  IF isLeaf /\ isCluster(dependent) THEN st ELSE getDependenciesFrom(st, dependent, isLeaf, 1)

\* mutant: the entries are collected as those of a leaf
getDependenciesAsLeaf(st, dependent, isLeaf) == getDependenciesFrom(st, dependent, TRUE, 1)

getDependencies(st, dependent, isLeaf) == getDependenciesFrom(st, dependent, isLeaf, 1)

RECURSIVE drawTree(_, _, _, _)
RECURSIVE drawSubDirs(_, _, _, _)

drawTree(st, directory, startLevel, isTreeRoot) ==
  IF ~isCluster(directory)
  THEN getDependencies(
         drawDirectory(st, directory, Prop(FALSE, FALSE, FALSE, isTreeRoot, FALSE)),
         directory, TRUE)
  ELSE IF isAtLowerVisibilityBorder(directory, startLevel)
  THEN getDependencies(
         drawDirectory(st, directory, Prop(FALSE, FALSE, TRUE, isTreeRoot, FALSE)),
         directory, TRUE)
  ELSE
    LET opened == getDependencies(
                    openCluster(st, directory, Prop(FALSE, FALSE, FALSE, isTreeRoot, FALSE), FALSE),
                    directory, FALSE)
        drawn == drawSubDirs(opened, subDirs(directory), startLevel, 1)
    IN [drawn EXCEPT !.out = Append(@, CloseStmt)]

drawSubDirs(st, list, startLevel, i) ==
  IF i > Len(list) THEN st
  ELSE drawSubDirs(drawTree(st, list[i], startLevel, FALSE), list, startLevel, i + 1)

\* mutant: a used directory beside dd is always marked truncated
siblingPropertyAlwaysTruncated(usedDir) == Prop(FALSE, FALSE, TRUE, FALSE, FALSE)

\* mutant: a used directory beside dd is marked like dd
siblingPropertyOriginal(usedDir) == Prop(FALSE, FALSE, isCluster(usedDir), TRUE, FALSE)

\* property of a used directory which has the parent of dd as parent
siblingProperty(usedDir) == Prop(FALSE, FALSE, isCluster(usedDir), FALSE, FALSE)

\* mutant: a peripheral directory is never marked orphaned
peripheralPropertyNotOrphaned(usedDir) == Prop(FALSE, FALSE, isCluster(usedDir), FALSE, TRUE)

\* property of a used directory which has the parent of an ancestor of dd as parent
peripheralProperty(usedDir) ==
  Prop(FALSE, parent(usedDir) # NoDir, isCluster(usedDir), FALSE, TRUE)

\* mutant: a used directory outside the tree of dd is drawn as a tree of its own
RECURSIVE drawEachAsTree(_, _, _, _)
drawEachAsTree(st, list, i, asPeripheral) ==
  IF i > Len(list) THEN st
  ELSE drawEachAsTree(drawTree(st, list[i], level(list[i]), FALSE), list, i + 1, asPeripheral)

\* mutant: the dependencies of a used directory beside the tree of dd are collected too
RECURSIVE drawEachCollecting(_, _, _, _)
drawEachCollecting(st, list, i, asPeripheral) ==
  IF i > Len(list) THEN st
  ELSE drawEachCollecting(
         getDependencies(
           drawDirectory(st, list[i],
                         IF asPeripheral THEN peripheralProperty(list[i])
                         ELSE siblingProperty(list[i])),
           list[i], TRUE),
         list, i + 1, asPeripheral)

RECURSIVE drawEach(_, _, _, _)
drawEach(st, list, i, asPeripheral) ==
  IF i > Len(list) THEN st
  ELSE drawEach(
         drawDirectory(st, list[i],
                       IF asPeripheral THEN peripheralProperty(list[i])
                       ELSE siblingProperty(list[i])),
         list, i + 1, asPeripheral)

\* the second partition's predicate is false for a used directory which shares
\* its parent with dd or with an ancestor of dd
\* mutant: every used directory left over counts as peripheral
sharesParentOrNot(dd, usedDir) == TRUE

sharesParentOnPath(dd, usedDir) ==
  \E dir \in {dd} \cup ancestorsOf(dd) : dir # usedDir /\ parent(dir) = parent(usedDir)

\* mutant: every candidate with a drawn destination becomes an edge
relationEdgesToAllDrawn(st, dd, usedDirsDrawn, linkRelations) ==
  LET Shown(i) == destination(st.reg[st.deps[i].relation]).dir \in st.dirsInGraph
      Edge(i) ==
        LET relation == st.reg[st.deps[i].relation]
            udir == destination(relation)
        IN EdgeStmt(relation.src, udir.dir, udir.nrefs,
                    IF linkRelations THEN relation.name ELSE NoName)
      RECURSIVE From(_)
      From(i) == IF i > Len(st.deps) THEN <<>>
                 ELSE (IF Shown(i) THEN <<Edge(i)>> ELSE <<>>) \o From(i + 1)
  IN From(1)

relationEdges(st, dd, usedDirsDrawn, linkRelations) ==
  LET Shown(i) ==
        LET relation == st.reg[st.deps[i].relation]
            usedDir == destination(relation).dir
            destIsSibling == \E k \in 1..Len(usedDirsDrawn) : usedDirsDrawn[k] = usedDir
            destIsDrawn == usedDir \in st.dirsInGraph
            notInherited == ~st.deps[i].inherited
            atVisibilityLimit == isAtLowerVisibilityBorder(usedDir, level(dd))
        IN destIsSibling \/ (destIsDrawn /\ (notInherited \/ atVisibilityLimit))
      Edge(i) ==
        LET relation == st.reg[st.deps[i].relation]
            udir == destination(relation)
        IN EdgeStmt(relation.src, udir.dir, udir.nrefs,
                    IF linkRelations THEN relation.name ELSE NoName)
      RECURSIVE From(_)
      From(i) == IF i > Len(st.deps) THEN <<>>
                 ELSE (IF Shown(i) THEN <<Edge(i)>> ELSE <<>>) \o From(i + 1)
  IN From(1)

writeDotDirDepGraph(reg, dd, linkRelations) ==
  LET st0 == [out |-> <<>>, dirsInGraph |-> {dd}, reg |-> reg, deps |-> <<>>]
      usedDirsNotDrawn0 == [i \in 1..Len(usedDirs[dd]) |-> usedDirs[dd][i].dir]
      isSibling(usedDir) == dd # usedDir /\ parent(dd) = parent(usedDir)
      notSibling(usedDir) == ~isSibling(usedDir)
      siblings == IF parent(dd) # NoDir THEN SelectSeq(usedDirsNotDrawn0, isSibling) ELSE <<>>
      usedDirsNotDrawn1 ==
        IF parent(dd) # NoDir THEN SelectSeq(usedDirsNotDrawn0, notSibling) ELSE usedDirsNotDrawn0
      st1 == IF parent(dd) # NoDir
             THEN drawEach(
                    openCluster(st0, parent(dd),
                                Prop(TRUE, parent(parent(dd)) # NoDir, FALSE, FALSE, FALSE), TRUE),
                    siblings, 1, FALSE)
             ELSE st0
      st2 == drawTree(st1, dd, level(dd), TRUE)
      st3 == IF parent(dd) # NoDir THEN [st2 EXCEPT !.out = Append(@, CloseStmt)] ELSE st2
      isPeripheral(usedDir) == sharesParentOnPath(dd, usedDir)
      notPeripheral(usedDir) == ~isPeripheral(usedDir)
      peripherals == SelectSeq(usedDirsNotDrawn1, isPeripheral)
      usedDirsNotDrawn2 == SelectSeq(usedDirsNotDrawn1, notPeripheral)
      st4 == drawEach(st3, peripherals, 1, TRUE)
      usedDirsDrawn == siblings \o peripherals
  IN [out |-> st4.out \o relationEdges(st4, dd, usedDirsDrawn, linkRelations),
      reg |-> st4.reg,
      dirsInGraph |-> st4.dirsInGraph,
      usedDirsDrawn |-> usedDirsDrawn,
      usedDirsNotDrawn |-> usedDirsNotDrawn2,
      dependencies |-> st4.deps]

----------------------------------------------------------------------------
(* writeDotDirDependencyGraph and its helpers (src/unnamed/part_003) *)

\* std::sort compares the addresses of the objects; the model takes the
\* directories and the relations to lie in memory in the order they were made
removeDuplicates(originalValues) ==
  SetToSortedSeq({originalValues[i] : i \in 1..Len(originalValues)})

RECURSIVE getSuccessors(_)
getSuccessors(nextLevelSuccessors) ==
  IF nextLevelSuccessors = <<>> THEN <<>>
  ELSE LET successor == Head(nextLevelSuccessors)
       IN (<<successor>> \o getSuccessors(subDirs(successor)))
          \o getSuccessors(Tail(nextLevelSuccessors))

RECURSIVE dependeesOf(_, _)
dependeesOf(dependents, minLevel) ==
  IF dependents = <<>> THEN <<>>
  ELSE LET list == usedDirs[Head(dependents)]
           used == [i \in 1..Len(list) |-> list[i].dir]
           atLeastMinLevel(dir) == level(dir) >= minLevel
       IN SelectSeq(used, atLeastMinLevel) \o dependeesOf(Tail(dependents), minLevel)

getDependees(dependents, minLevel) == removeDuplicates(dependeesOf(dependents, minLevel))

Contains(list, x) == \E i \in 1..Len(list) : list[i] = x

\* directoryProperties[directory], which creates a default entry when there is none
propertyAt(directoryProperties, directory) ==
  IF directory \in DOMAIN directoryProperties THEN directoryProperties[directory]
  ELSE DefaultProp

setIncomplete(directoryProperties, directory) ==
  (directory :> [propertyAt(directoryProperties, directory) EXCEPT !.isIncomplete = TRUE])
    @@ directoryProperties

setOrphaned(directoryProperties, directory) ==
  (directory :> [propertyAt(directoryProperties, directory) EXCEPT !.isOrphaned = TRUE])
    @@ directoryProperties

\* std::map::insert, which keeps an entry that exists
insertDefault(directoryProperties, directory) ==
  directoryProperties @@ (directory :> DefaultProp)

\* mutant: every visited directory is marked incomplete
RECURSIVE getTreeRootsLimitedMarkingAll(_, _, _, _)
getTreeRootsLimitedMarkingAll(rs, basedOnDirectory, originalDirectoryTree, startLevel) ==
  IF Contains(rs.ancestors, basedOnDirectory) THEN rs
  ELSE
    LET marked == [rs EXCEPT !.props = setIncomplete(@, basedOnDirectory)]
    IN IF parent(basedOnDirectory) = NoDir
       THEN [marked EXCEPT !.ancestors = Append(@, basedOnDirectory)]
       ELSE IF startLevel - level(parent(basedOnDirectory)) > maxAncestor
       THEN [marked EXCEPT !.props = setOrphaned(@, basedOnDirectory),
                           !.ancestors = Append(@, basedOnDirectory)]
       ELSE getTreeRootsLimitedMarkingAll(marked, parent(basedOnDirectory),
                                          originalDirectoryTree, startLevel)

\* mutant: a parent exactly at the ancestor limit is taken to be too far up
RECURSIVE getTreeRootsLimitedAtLimit(_, _, _, _)
getTreeRootsLimitedAtLimit(rs, basedOnDirectory, originalDirectoryTree, startLevel) ==
  IF Contains(rs.ancestors, basedOnDirectory) THEN rs
  ELSE
    LET marked == IF ~Contains(originalDirectoryTree, basedOnDirectory)
                  THEN [rs EXCEPT !.props = setIncomplete(@, basedOnDirectory)]
                  ELSE rs
    IN IF parent(basedOnDirectory) = NoDir
       THEN [marked EXCEPT !.ancestors = Append(@, basedOnDirectory)]
       ELSE IF startLevel - level(parent(basedOnDirectory)) >= maxAncestor
       THEN [marked EXCEPT !.props = setOrphaned(@, basedOnDirectory),
                           !.ancestors = Append(@, basedOnDirectory)]
       ELSE getTreeRootsLimitedAtLimit(marked, parent(basedOnDirectory),
                                       originalDirectoryTree, startLevel)

\* mutant: a directory is registered without a look at the list of tree roots
RECURSIVE getTreeRootsLimitedUnchecked(_, _, _, _)
getTreeRootsLimitedUnchecked(rs, basedOnDirectory, originalDirectoryTree, startLevel) ==
  LET marked == IF ~Contains(originalDirectoryTree, basedOnDirectory)
                THEN [rs EXCEPT !.props = setIncomplete(@, basedOnDirectory)]
                ELSE rs
  IN IF parent(basedOnDirectory) = NoDir
     THEN [marked EXCEPT !.ancestors = Append(@, basedOnDirectory)]
     ELSE IF startLevel - level(parent(basedOnDirectory)) > maxAncestor
     THEN [marked EXCEPT !.props = setOrphaned(@, basedOnDirectory),
                         !.ancestors = Append(@, basedOnDirectory)]
     ELSE getTreeRootsLimitedUnchecked(marked, parent(basedOnDirectory),
                                       originalDirectoryTree, startLevel)

RECURSIVE getTreeRootsLimited(_, _, _, _)
getTreeRootsLimited(rs, basedOnDirectory, originalDirectoryTree, startLevel) ==
  IF Contains(rs.ancestors, basedOnDirectory) THEN rs
  ELSE
    LET marked == IF ~Contains(originalDirectoryTree, basedOnDirectory)
                  THEN [rs EXCEPT !.props = setIncomplete(@, basedOnDirectory)]
                  ELSE rs
    IN IF parent(basedOnDirectory) = NoDir
       THEN [marked EXCEPT !.ancestors = Append(@, basedOnDirectory)]
       ELSE IF startLevel - level(parent(basedOnDirectory)) > maxAncestor
       THEN [marked EXCEPT !.props = setOrphaned(@, basedOnDirectory),
                           !.ancestors = Append(@, basedOnDirectory)]
       ELSE getTreeRootsLimited(marked, parent(basedOnDirectory), originalDirectoryTree, startLevel)

RECURSIVE getTreeRootsLimitedOfAll(_, _, _, _)
getTreeRootsLimitedOfAll(rs, basedOnDirectories, originalDirectoryTree, startLevel) ==
  IF basedOnDirectories = <<>> THEN rs
  ELSE getTreeRootsLimitedOfAll(
         getTreeRootsLimited(rs, Head(basedOnDirectories), originalDirectoryTree, startLevel),
         Tail(basedOnDirectories), originalDirectoryTree, startLevel)

\* mutant: the property is looked up with operator[], which creates a default entry
RECURSIVE drawTreesInserting(_, _, _, _)
drawTreesInserting(output, listOfTreeRoots, directoryProperties, startLevel) ==
  IF listOfTreeRoots = <<>> THEN [out |-> output, props |-> directoryProperties]
  ELSE
    LET directory == Head(listOfTreeRoots)
        properties == insertDefault(directoryProperties, directory)
        directoryProperty == properties[directory]
        drawn ==
          IF subDirs(directory) = <<>>
          THEN [out |-> Append(output, NodeStmt(directory, directoryProperty)),
                props |-> properties]
          ELSE IF isAtLowerVisibilityBorder(directory, startLevel)
          THEN [out |-> Append(output,
                               NodeStmt(directory, [directoryProperty EXCEPT !.isTruncated = TRUE])),
                props |-> properties]
          ELSE LET inner == drawTreesInserting(
                              output \o <<ClusterStmt(directory, directoryProperty, FALSE),
                                          PlainStmt(directory)>>,
                              subDirs(directory), properties, startLevel)
               IN [out |-> Append(inner.out, CloseStmt), props |-> inner.props]
    IN drawTreesInserting(drawn.out, Tail(listOfTreeRoots), drawn.props, startLevel)

\* the property map is passed by reference: the result holds the output and the map
RECURSIVE drawTrees(_, _, _, _)
drawTrees(output, listOfTreeRoots, directoryProperties, startLevel) ==
  IF listOfTreeRoots = <<>> THEN [out |-> output, props |-> directoryProperties]
  ELSE
    LET directory == Head(listOfTreeRoots)
        rest == Tail(listOfTreeRoots)
    IN IF directory \notin DOMAIN directoryProperties
       THEN \* std::out_of_range: do not draw that directory
            drawTrees(output, rest, directoryProperties, startLevel)
       ELSE
         LET directoryProperty == directoryProperties[directory]
             drawn ==
               IF subDirs(directory) = <<>>
               THEN [out |-> Append(output, NodeStmt(directory, directoryProperty)),
                     props |-> directoryProperties]
               ELSE IF isAtLowerVisibilityBorder(directory, startLevel)
               THEN [out |-> Append(output,
                                    NodeStmt(directory,
                                             [directoryProperty EXCEPT !.isTruncated = TRUE])),
                     props |-> directoryProperties]
               ELSE LET inner == drawTrees(
                                   output \o <<ClusterStmt(directory, directoryProperty, FALSE),
                                               PlainStmt(directory)>>,
                                   subDirs(directory), directoryProperties, startLevel)
                    IN [out |-> Append(inner.out, CloseStmt), props |-> inner.props]
         IN drawTrees(drawn.out, rest, drawn.props, startLevel)

isDependencyInherited(u) == isAllDependentsInherited(u)

isParentOfTheDependee(u) == isAllDependeesInherited(u, TRUE)

isVisible(directory, startLevel) == (level(directory) - startLevel) <= maxSuccessor

RECURSIVE getDirRelationsFrom(_, _, _, _)
getDirRelationsFrom(rr, dependent, startLevel, i) ==
  IF i > Len(usedDirs[dependent]) THEN rr
  ELSE
    LET usedDirectory == usedDirs[dependent][i]
        dependee == usedDirectory.dir
    IN IF /\ isVisible(dependee, startLevel)
          /\ (~isDependencyInherited(usedDirectory)
                \/ isAtLowerVisibilityBorder(dependent, startLevel))
          /\ (~isParentOfTheDependee(usedDirectory)
                \/ isAtLowerVisibilityBorder(dependee, startLevel))
       THEN
         LET name == relationName(dirCount(dependent), dirCount(dependee))
             found == findRelation(rr.reg, name)
             reg1 == IF found = 0
                     THEN Append(rr.reg, DirRelation(name, dependent, <<dependent, i>>))
                     ELSE rr.reg
             dependency == IF found = 0 THEN Len(reg1) ELSE found
         IN getDirRelationsFrom([reg |-> reg1, relations |-> Append(rr.relations, dependency)],
                                dependent, startLevel, i + 1)
       ELSE getDirRelationsFrom(rr, dependent, startLevel, i + 1)

RECURSIVE getDirRelationsOfAll(_, _, _)
getDirRelationsOfAll(rr, dependents, startLevel) ==
  IF dependents = <<>> THEN rr
  ELSE getDirRelationsOfAll(
         IF isVisible(Head(dependents), startLevel)
         THEN getDirRelationsFrom(rr, Head(dependents), startLevel, 1)
         ELSE rr,
         Tail(dependents), startLevel)

getDirRelations(reg, allNonAncestorDirectories, startLevel) ==
  LET rr == getDirRelationsOfAll([reg |-> reg, relations |-> <<>>],
                                 allNonAncestorDirectories, startLevel)
  IN [reg |-> rr.reg, relations |-> removeDuplicates(rr.relations)]

drawRelations(reg, listOfRelations, linkRelations) ==
  [i \in 1..Len(listOfRelations) |->
     LET relation == reg[listOfRelations[i]]
         udir == destination(relation)
     IN EdgeStmt(relation.src, udir.dir, udir.nrefs,
                 IF linkRelations THEN relation.name ELSE NoName)]

RECURSIVE insertDefaults(_, _)
insertDefaults(directoryProperties, list) ==
  IF list = <<>> THEN directoryProperties
  ELSE insertDefaults(insertDefault(directoryProperties, Head(list)), Tail(list))

writeDotDirDependencyGraph(reg, originalDirectoryPointer, linkRelations) ==
  LET properties0 == originalDirectoryPointer :> Prop(FALSE, FALSE, FALSE, TRUE, FALSE)
      startLevel == level(originalDirectoryPointer)
      successorsOfOriginalDirectory == getSuccessors(subDirs(originalDirectoryPointer))
      originalDirectoryTree == Append(successorsOfOriginalDirectory, originalDirectoryPointer)
      dependeeDirectories == getDependees(originalDirectoryTree, startLevel - maxAncestor)
      properties1 == insertDefaults(properties0,
                                    successorsOfOriginalDirectory \o dependeeDirectories)
      rs == getTreeRootsLimitedOfAll([ancestors |-> <<>>, props |-> properties1],
                                     Append(dependeeDirectories, originalDirectoryPointer),
                                     originalDirectoryTree, startLevel)
      rr == getDirRelations(reg, originalDirectoryTree, startLevel)
      drawn == drawTrees(<<>>, rs.ancestors, rs.props, startLevel)
  IN [out |-> drawn.out \o drawRelations(rr.reg, rr.relations, linkRelations),
      reg |-> rr.reg,
      defaults |-> properties1,
      resolved |-> rs.props,
      props |-> drawn.props,
      roots |-> rs.ancestors,
      relations |-> rr.relations,
      tree |-> originalDirectoryTree,
      dependees |-> dependeeDirectories]

----------------------------------------------------------------------------
(* Actions *)

NoGen ==
  [count |-> 0, variant |-> "none", dd |-> NoDir, linkRelations |-> FALSE,
   regBefore |-> 0,
   dirsInGraph |-> {}, usedDirsDrawn |-> <<>>, dependencies |-> <<>>,
   defaults |-> <<>>, resolved |-> <<>>, props |-> <<>>, roots |-> <<>>, relations |-> <<>>]

InitOf(trees, successorLimits, ancestorLimits) ==
  /\ tree \in trees
  /\ maxSuccessor \in successorLimits
  /\ maxAncestor \in ancestorLimits
  /\ usedDirs = [d \in DOMAIN tree |-> <<>>]
  /\ dirRelations = <<>>
  /\ out = <<>>
  /\ gen = NoGen
  /\ threads = <<>>

Init == InitOf(Trees, 0..MaxLimit, 0..MaxLimit)

\* computeDirDependencies: one file of `dependent` uses one file of `usedDir`.
\* A dependency is inherited by an end only from a successor of that end.
AddUsesDependency(dependent, usedDir, inheritedByDependent, inheritedByDependee) ==
  /\ gen.count = 0
  /\ threads = <<>>
  /\ NumFileDeps < MaxFileDeps
  /\ dependent # usedDir
  /\ inheritedByDependent => isCluster(dependent)
  /\ inheritedByDependee => isCluster(usedDir)
  /\ usedDirs' = [usedDirs EXCEPT ![dependent] =
                    addUsesDependency(@, usedDir, inheritedByDependent, inheritedByDependee)]
  /\ UNCHANGED <<tree, maxSuccessor, maxAncestor, dirRelations, out, gen, threads>>

WriteDotDirDepGraph(dd, linkRelations, budget) ==
  /\ gen.count < budget
  /\ threads = <<>>
  /\ LET r == writeDotDirDepGraph(dirRelations, dd, linkRelations)
     IN /\ out' = r.out
        /\ dirRelations' = r.reg
        /\ gen' = [NoGen EXCEPT !.count = gen.count + 1,
                                !.variant = "writeDotDirDepGraph",
                                !.dd = dd, !.linkRelations = linkRelations,
                                !.regBefore = Len(dirRelations),
                                !.dirsInGraph = r.dirsInGraph,
                                !.usedDirsDrawn = r.usedDirsDrawn,
                                !.dependencies = r.dependencies]
  /\ UNCHANGED <<tree, maxSuccessor, maxAncestor, usedDirs, threads>>

WriteDotDirDependencyGraph(dd, linkRelations, budget) ==
  /\ gen.count < budget
  /\ threads = <<>>
  /\ LET r == writeDotDirDependencyGraph(dirRelations, dd, linkRelations)
     IN /\ out' = r.out
        /\ dirRelations' = r.reg
        /\ gen' = [NoGen EXCEPT !.count = gen.count + 1,
                                !.variant = "writeDotDirDependencyGraph",
                                !.dd = dd, !.linkRelations = linkRelations,
                                !.regBefore = Len(dirRelations),
                                !.defaults = r.defaults,
                                !.resolved = r.resolved,
                                !.props = r.props,
                                !.roots = r.roots,
                                !.relations = r.relations]
  /\ UNCHANGED <<tree, maxSuccessor, maxAncestor, usedDirs, threads>>

Next ==
  \/ \E dependent \in Dirs, usedDir \in Dirs, a \in BOOLEAN, b \in BOOLEAN :
       AddUsesDependency(dependent, usedDir, a, b)
  \/ \E dd \in Dirs, linkRelations \in BOOLEAN : WriteDotDirDepGraph(dd, linkRelations, 1)
  \/ \E dd \in Dirs, linkRelations \in BOOLEAN : WriteDotDirDependencyGraph(dd, linkRelations, 1)

\* one graph generation after the dependencies were computed
Spec == Init /\ [][Next]_vars

----------------------------------------------------------------------------
(* Several graph generations of one documentation run, one after the other *)

InitRun == InitOf({ScenarioTree}, {MaxLimit}, {MaxLimit})

\* the graphs of a run are written with links to the relation pages
NextRun ==
  \/ \E dependent \in Dirs, usedDir \in Dirs, a \in BOOLEAN, b \in BOOLEAN :
       AddUsesDependency(dependent, usedDir, a, b)
  \/ \E dd \in Dirs : WriteDotDirDepGraph(dd, TRUE, MaxGenerations)
  \/ \E dd \in Dirs : WriteDotDirDependencyGraph(dd, TRUE, MaxGenerations)

SpecRun == InitRun /\ [][NextRun]_vars

----------------------------------------------------------------------------
(* What a generation drew *)

Generated == gen.count > 0

ON == gen.dd

ByDepGraph == gen.variant = "writeDotDirDepGraph"

ByDependencyGraph == gen.variant = "writeDotDirDependencyGraph"

StmtsOf(kinds) == {i \in 1..Len(out) : out[i].kind \in kinds}

\* the directories drawn as a box node or as a cluster
DrawnDirs == {out[i].dir : i \in StmtsOf({"node", "cluster"})}

Edges == StmtsOf({"edge"})

\* the number of box nodes and clusters in the output
NumDrawn == Cardinality(StmtsOf({"node", "cluster"}))

\* the directories which ON or a successor of ON uses
Dependees ==
  UNION {{usedDirs[d][i].dir : i \in 1..Len(usedDirs[d])} : d \in {ON} \cup successorsOf(ON)}

----------------------------------------------------------------------------
(* C1: the edge statements of one graph generation contain no two edges    *)
(* with the same (source directory, destination directory) pair.           *)
NoDuplicateEdges ==
  \A i \in Edges, j \in Edges :
    (out[i].dir = out[j].dir /\ out[i].dst = out[j].dst) => i = j

\* two edges leave one directory and two edges reach one directory
SeveralEdgesDrawn ==
  /\ \E i \in Edges, j \in Edges : i # j /\ out[i].dir = out[j].dir
  /\ gen.linkRelations

----------------------------------------------------------------------------
(* C2: the number of directories drawn by one generation is at most        *)
(* |successors(ON) within the successor limit| + |ancestor path of ON and  *)
(* of the dependees within the ancestor limit| + |successors of the        *)
(* dependees within the successor limit|.                                  *)
SuccessorsWithinLimit ==
  {s \in successorsOf(ON) : level(s) - level(ON) <= maxSuccessor}

AncestorPathsWithinLimit ==
  {x \in UNION {{d} \cup ancestorsOf(d) : d \in {ON} \cup Dependees} :
     level(ON) - level(x) <= maxAncestor}

DependeeSuccessorsWithinLimit ==
  {s \in UNION {successorsOf(d) : d \in Dependees} : level(s) - level(ON) <= maxSuccessor}

DrawnBound ==
  Cardinality(SuccessorsWithinLimit) + Cardinality(AncestorPathsWithinLimit)
    + Cardinality(DependeeSuccessorsWithinLimit)

DrawnIsBounded == Generated => NumDrawn <= DrawnBound

----------------------------------------------------------------------------
(* C3: every drawn directory D satisfies                                   *)
(* D.level - ON.level <= maxSuccessorDepth.                                *)
SuccessorLimitRespected ==
  Generated => \A D \in DrawnDirs : level(D) - level(ON) <= maxSuccessor

\* a successor of ON is drawn at the limit and ON has successors below the limit
DrawnUpToTheLimit ==
  /\ Generated
  /\ maxSuccessor >= 1
  /\ \E D \in DrawnDirs \cap successorsOf(ON) : level(D) - level(ON) = maxSuccessor
  /\ \E s \in successorsOf(ON) : level(s) - level(ON) > maxSuccessor

----------------------------------------------------------------------------
(* C4: with maxSuccessorDepth = 0, ON is emitted as exactly one node       *)
(* statement (plain if it has no children, marked truncated if it has) and *)
(* no successor of ON is emitted as a node or cluster.                     *)
OriginalAloneAtLimitZero ==
  (Generated /\ maxSuccessor = 0) =>
    /\ \E i \in 1..Len(out) :
         /\ out[i].dir = ON
         /\ out[i].kind = "node"
         /\ out[i].prop.isTruncated = isCluster(ON)
         /\ \A j \in StmtsOf({"node", "cluster", "plain"}) : out[j].dir = ON => j = i
    /\ DrawnDirs \cap successorsOf(ON) = {}

\* an ON with children was drawn with the limit 0
ClusterDrawnAtLimitZero ==
  Generated /\ maxSuccessor = 0 /\ isCluster(ON) /\ ON \in DrawnDirs

----------------------------------------------------------------------------
(* C5: with maxAncestorDepth = 0 no ancestor of ON is drawn, neither as a  *)
(* node nor as a cluster; ON itself is the tree root of its own tree.      *)
NoAncestorAtLimitZero ==
  (Generated /\ maxAncestor = 0) =>
    /\ DrawnDirs \cap ancestorsOf(ON) = {}
    /\ ByDependencyGraph => Contains(gen.roots, ON)

----------------------------------------------------------------------------
(* C6: no directory carries a draw property with both isOriginal and       *)
(* isIncomplete: neither in the property map after root resolution nor in  *)
(* a property passed to a node or cluster emission.                        *)
OriginalXorIncomplete(property) == ~(property.isOriginal /\ property.isIncomplete)

NeverOriginalAndIncomplete ==
  /\ \A i \in StmtsOf({"node", "cluster"}) : OriginalXorIncomplete(out[i].prop)
  /\ \A d \in DOMAIN gen.props : OriginalXorIncomplete(gen.props[d])

\* the resolver marked a directory incomplete and the original was drawn
OriginalAndIncompleteDrawn ==
  /\ ByDependencyGraph
  /\ \E d \in DOMAIN gen.props : gen.props[d].isIncomplete
  /\ \E i \in StmtsOf({"node", "cluster"}) : out[i].prop.isOriginal /\ out[i].dir = ON
  /\ \E i \in StmtsOf({"node", "cluster"}) : out[i].prop.isIncomplete

----------------------------------------------------------------------------
(* C7: a directory emitted with isTruncated set has at least one child.    *)
TruncatedOnlyClusters ==
  \A i \in StmtsOf({"node", "cluster"}) :
    (out[i].prop.isTruncated \/ out[i].color \in {"red", "darkorchid3"})
      => isCluster(out[i].dir)

\* a used directory with children was drawn truncated next to a leaf
TruncatedDependeeDrawn ==
  /\ ByDepGraph
  /\ \E i \in StmtsOf({"node"}) :
       out[i].prop.isTruncated /\ Contains(gen.usedDirsDrawn, out[i].dir)
  /\ \E i \in StmtsOf({"node"}) : ~out[i].prop.isTruncated /\ ~isCluster(out[i].dir)

----------------------------------------------------------------------------
(* C8: across any sequence of generations every find-or-create for the     *)
(* same ordered pair (dependent ordinal, dependee ordinal) returns the     *)
(* same record with the name dir_<dependent>_<dependee>; a record is never *)
(* replaced or removed, so two generations that reference one relation     *)
(* use the same identifier and hyperlink target.                           *)
DigitValue(c) == CHOOSE n \in 0..9 : Digit(n) = c

RECURSIVE NumberOf(_)
NumberOf(digits) ==
  IF digits = <<>> THEN 0
  ELSE 10 * NumberOf(SubSeq(digits, 1, Len(digits) - 1)) + DigitValue(digits[Len(digits)])

\* the two ordinals read back from a relation name
OrdinalsIn(name) ==
  LET sep == CHOOSE k \in 2..Len(name) : name[k] = "_"
  IN <<NumberOf(SubSeq(name, 2, sep - 1)), NumberOf(SubSeq(name, sep + 1, Len(name)))>>

PairOf(relation) == <<dirCount(relation.src), dirCount(destination(relation).dir)>>

EdgeRefs(output) ==
  {<<output[i].dir, output[i].dst, output[i].href>> :
     i \in {k \in 1..Len(output) : output[k].kind = "edge" /\ output[k].href # NoName}}

RegistryKept ==
  /\ Len(dirRelations') >= Len(dirRelations)
  /\ \A i \in 1..Len(dirRelations) : dirRelations'[i] = dirRelations[i]
  /\ \A i \in 1..Len(dirRelations'), j \in 1..Len(dirRelations') :
       PairOf(dirRelations'[i]) = PairOf(dirRelations'[j]) => i = j
  /\ \A i \in 1..Len(dirRelations') :
       /\ dirRelations'[i].name[1] = "dir_"
       /\ OrdinalsIn(dirRelations'[i].name) = PairOf(dirRelations'[i])
  /\ \A e \in EdgeRefs(out') :
       \E i \in 1..Len(dirRelations') :
         /\ dirRelations'[i].name = e[3]
         /\ PairOf(dirRelations'[i]) = <<dirCount(e[1]), dirCount(e[2])>>
  /\ \A e \in EdgeRefs(out), f \in EdgeRefs(out') :
       (e[1] = f[1] /\ e[2] = f[2]) => e[3] = f[3]

RegistryStable == [][RegistryKept]_vars

\* the second generation, for another ON, drew an edge of a relation it found
RelationReused ==
  /\ gen.count = 2
  /\ gen.linkRelations
  /\ \E i \in 1..gen.regBefore :
       /\ dirRelations[i].src \notin {ON} \cup successorsOf(ON)
  /\ \E i \in 1..gen.regBefore, k \in Edges :
       /\ out[k].href = dirRelations[i].name
       /\ out[k].dir = dirRelations[i].src

----------------------------------------------------------------------------
(* Two graph generations for different directories running at the same     *)
(* time.  getDependencies looks a relation up (Doxygen::dirRelations.find) *)
(* and, when the lookup returned null, appends a new record               *)
(* (Doxygen::dirRelations.append); nothing holds the registry between the  *)
(* two calls, so another generation may run in between.                    *)

\* the relations one generation looks up, in the order it reaches them
requests(dd) == writeDotDirDepGraph(<<>>, dd, FALSE).reg

Worker(dd) ==
  LET todo == requests(dd)
  IN [dd |-> dd, todo |-> todo, pc |-> IF todo = <<>> THEN "done" ELSE "find"]

proceed(worker) ==
  LET rest == Tail(worker.todo)
  IN [worker EXCEPT !.todo = rest, !.pc = IF rest = <<>> THEN "done" ELSE "find"]

StartGenerations(dd1, dd2) ==
  /\ gen.count = 0
  /\ threads = <<>>
  /\ dd1 # dd2
  /\ threads' = <<Worker(dd1), Worker(dd2)>>
  /\ UNCHANGED <<tree, maxSuccessor, maxAncestor, usedDirs, dirRelations, out, gen>>

\* auto dirRelation = Doxygen::dirRelations.find(relationName);
FindRelation(w) ==
  /\ w \in DOMAIN threads
  /\ threads[w].pc = "find"
  /\ threads' = [threads EXCEPT ![w] =
                   IF findRelation(dirRelations, Head(@.todo).name) = 0
                   THEN [@ EXCEPT !.pc = "append"]
                   ELSE proceed(@)]
  /\ UNCHANGED <<tree, maxSuccessor, maxAncestor, usedDirs, dirRelations, out, gen>>

\* if (dirRelation == nullptr) Doxygen::dirRelations.append(relationName, dirRelation);
AppendRelation(w) ==
  /\ w \in DOMAIN threads
  /\ threads[w].pc = "append"
  /\ dirRelations' = Append(dirRelations, Head(threads[w].todo))
  /\ threads' = [threads EXCEPT ![w] = proceed(@)]
  /\ UNCHANGED <<tree, maxSuccessor, maxAncestor, usedDirs, out, gen>>

InitConc == InitOf({ScenarioTree}, {MaxLimit}, {MaxLimit})

NextConc ==
  \/ \E dependent \in Dirs, usedDir \in Dirs, a \in BOOLEAN, b \in BOOLEAN :
       AddUsesDependency(dependent, usedDir, a, b)
  \/ \E dd1 \in Dirs, dd2 \in Dirs : StartGenerations(dd1, dd2)
  \/ \E w \in 1..2 : FindRelation(w)
  \/ \E w \in 1..2 : AppendRelation(w)

SpecConc == InitConc /\ [][NextConc]_vars

(* C9: when generations for different directories run concurrently and two *)
(* of them discover the same (dependent, dependee) relation, the registry  *)
(* never holds two records for that ordered pair.                          *)
NoDuplicateRecords ==
  \A i \in 1..Len(dirRelations), j \in 1..Len(dirRelations) :
    PairOf(dirRelations[i]) = PairOf(dirRelations[j]) => i = j

----------------------------------------------------------------------------
(* The worked scenario: root -> {A -> {B, C}, D}; B uses C and A uses D,   *)
(* one file pair each, inherited on neither end; ON = A, both limits 1.    *)

OneFilePair(dir) ==
  [dir |-> dir, nrefs |-> 1, SODO |-> TRUE, SODI |-> FALSE, SIDO |-> FALSE, SIDI |-> FALSE]

ScenarioUsedDirs ==
  [d \in 1..5 |-> CASE d = 2 -> <<OneFilePair(5)>>
                    [] d = 3 -> <<OneFilePair(4)>>
                    [] OTHER -> <<>>]

ScenarioGenerated ==
  /\ Generated
  /\ tree = ScenarioTree
  /\ usedDirs = ScenarioUsedDirs
  /\ maxSuccessor = 1
  /\ maxAncestor = 1
  /\ ON = 2

\* clusters opened minus clusters closed by the statements a..k-1
Balance(a, k) ==
  Cardinality({m \in a..(k - 1) : out[m].kind = "cluster"})
    - Cardinality({m \in a..(k - 1) : out[m].kind = "close"})

\* statement i lies between the opening of the cluster of c and its closing
InsideCluster(i, c) ==
  \E a \in 1..(i - 1) :
    /\ out[a].kind = "cluster"
    /\ out[a].dir = c
    /\ \A k \in (a + 1)..i : Balance(a, k) >= 1

NodesOf(d) == {i \in StmtsOf({"node"}) : out[i].dir = d}

\* what both generators draw for the scenario
ScenarioDrawing ==
  /\ \E a \in StmtsOf({"cluster"}) : out[a].dir = 2
  /\ \E i \in StmtsOf({"plain"}) : out[i].dir = 2 /\ InsideCluster(i, 2)
  /\ \A d \in {3, 4} :
       /\ NodesOf(d) # {}
       /\ \A i \in NodesOf(d) : InsideCluster(i, 2) /\ ~out[i].prop.isTruncated
  /\ NodesOf(2) = {}
  /\ NodesOf(5) # {}
  /\ \A i \in NodesOf(5) : InsideCluster(i, 1) /\ ~InsideCluster(i, 2)
  /\ 5 \notin {out[i].dir : i \in StmtsOf({"cluster"})}
  /\ Cardinality(Edges) = 2
  /\ {<<out[i].dir, out[i].dst, out[i].headlabel>> : i \in Edges} = {<<3, 4, 1>>, <<2, 5, 1>>}

(* C10 as stated: in the scenario A is a cluster containing the leaf nodes *)
(* B and C, D is a sibling node marked incomplete, and exactly the edges   *)
(* B -> C and A -> D are emitted, each with head label 1, A -> D starting  *)
(* at the plain node of A's cluster.                                       *)
ScenarioAsStated ==
  ScenarioGenerated =>
    /\ ScenarioDrawing
    /\ \A i \in NodesOf(5) : out[i].prop.isIncomplete

(* C10: in the scenario A is a cluster containing the leaf nodes B and C   *)
(* and exactly the edges B -> C and A -> D are emitted, each with head     *)
(* label 1, A -> D starting at the plain node of A's cluster; D is a node  *)
(* inside the cluster of root which is never peripheral: the generator     *)
(* writeDotDirDepGraph draws it unmarked (solid, "filled"), the generator  *)
(* writeDotDirDependencyGraph marks it incomplete (dashed).                *)
ScenarioAsDrawn ==
  ScenarioGenerated =>
    /\ ScenarioDrawing
    /\ \A i \in NodesOf(5) :
         /\ ~out[i].prop.isPeriperal
         /\ ByDepGraph => out[i].prop = DefaultProp /\ out[i].style = <<"filled">>
         /\ ByDependencyGraph =>
              out[i].prop.isIncomplete /\ out[i].style = <<"filled", "dashed">>

\* the scenario was drawn by writeDotDirDepGraph
ScenarioDrawnByDepGraph == ScenarioGenerated /\ ByDepGraph /\ gen.linkRelations

----------------------------------------------------------------------------
ScenarioGeneratedAtLimitZero ==
  /\ Generated
  /\ tree = ScenarioTree
  /\ usedDirs = ScenarioUsedDirs
  /\ maxSuccessor = 0
  /\ ON = 2

\* what both generators draw for the scenario with the successor limit 0
ScenarioDrawingAtLimitZero ==
  /\ Cardinality(NodesOf(2)) = 1
  /\ \A i \in StmtsOf({"cluster", "plain"}) : out[i].dir # 2
  /\ \A i \in NodesOf(2) : out[i].prop.isTruncated
  /\ DrawnDirs \cap {3, 4} = {}
  /\ {<<out[i].dir, out[i].dst>> : i \in Edges} = {<<2, 5>>}
  /\ \A i \in Edges : out[i].headlabel = 1

----------------------------------------------------------------------------
(* One graph generation with MAX_DOT_GRAPH_SUCCESSOR and                   *)
(* MAX_DOT_GRAPH_ANCESTOR configured below zero.                           *)

InitNegative == InitOf(Trees, {-MaxLimit}, {-MaxLimit})

SpecNegative == InitNegative /\ [][Next]_vars

NoSuccessorBelowZero ==
  (Generated /\ maxSuccessor < 0) => DrawnDirs \cap successorsOf(ON) = {}

NoAncestorBelowZero ==
  (Generated /\ maxAncestor < 0) => DrawnDirs \cap ancestorsOf(ON) = {}

(* C12: a negative limit is treated as zero: with maxSuccessorDepth < 0 no *)
(* successor of ON is drawn, with maxAncestorDepth < 0 no ancestor of ON   *)
(* is drawn.                                                               *)
NegativeLimitIsZero == NoSuccessorBelowZero /\ NoAncestorBelowZero

----------------------------------------------------------------------------
(* C13: when drawTrees reaches a directory without an entry in the         *)
(* property map it emits nothing for it, does not descend into it, creates *)
(* no entry for it and goes on with the remaining directories.             *)
ClusterDirs == {out[i].dir : i \in StmtsOf({"cluster"})}

\* the tree roots and the sub-directories of every opened cluster
ReachedByDrawTrees ==
  {gen.roots[i] : i \in 1..Len(gen.roots)} \cup {c \in Dirs : parent(c) \in ClusterDirs}

WithoutProperty == {d \in ReachedByDrawTrees : d \notin DOMAIN gen.resolved}

----------------------------------------------------------------------------
(* drawDirectory and openCluster applied to directories with any property  *)

MaxDrawn == 2

DotDirProperties ==
  {Prop(inc, orph, trunc, orig, peri) :
     inc \in BOOLEAN, orph \in BOOLEAN, trunc \in BOOLEAN, orig \in BOOLEAN, peri \in BOOLEAN}

DrawDirectory(directory, property) ==
  /\ gen.count = 0
  /\ Len(out) < MaxDrawn
  /\ out' = drawDirectory([out |-> out, dirsInGraph |-> {}], directory, property).out
  /\ UNCHANGED <<tree, maxSuccessor, maxAncestor, usedDirs, dirRelations, gen, threads>>

OpenCluster(directory, property, isAncestor) ==
  /\ gen.count = 0
  /\ Len(out) < MaxDrawn
  /\ isCluster(directory)
  /\ out' = openCluster([out |-> out, dirsInGraph |-> {}], directory, property, isAncestor).out
  /\ UNCHANGED <<tree, maxSuccessor, maxAncestor, usedDirs, dirRelations, gen, threads>>

InitDraw == InitOf({ScenarioTree}, {MaxLimit}, {MaxLimit})

NextDraw ==
  \/ \E directory \in Dirs, property \in DotDirProperties : DrawDirectory(directory, property)
  \/ \E directory \in Dirs, property \in DotDirProperties, isAncestor \in BOOLEAN :
       OpenCluster(directory, property, isAncestor)

SpecDraw == InitDraw /\ [][NextDraw]_vars

(* C14: the border colour of a node or cluster depends only on             *)
(* (isTruncated, isOrphaned): both, only truncated, only orphaned and      *)
(* neither give four pairwise different colours, and isOriginal,           *)
(* isIncomplete and isPeriperal never change the colour.                   *)
BorderColourByTruncatedAndOrphaned ==
  \A i \in StmtsOf({"node", "cluster"}), j \in StmtsOf({"node", "cluster"}) :
    out[i].color = out[j].color
      <=> /\ out[i].prop.isTruncated = out[j].prop.isTruncated
          /\ out[i].prop.isOrphaned = out[j].prop.isOrphaned

\* two statements which agree on isTruncated and isOrphaned and differ in the other three
SameColourDifferentProperties ==
  \E i \in StmtsOf({"node", "cluster"}), j \in StmtsOf({"node", "cluster"}) :
    /\ out[i].prop.isTruncated /\ out[j].prop.isTruncated
    /\ out[i].prop.isOrphaned /\ out[j].prop.isOrphaned
    /\ out[i].prop.isOriginal # out[j].prop.isOriginal
    /\ out[i].prop.isIncomplete # out[j].prop.isIncomplete
    /\ out[i].prop.isPeriperal # out[j].prop.isPeriperal

----------------------------------------------------------------------------
(* One graph generation taken call by call: every invocation of a          *)
(* recursive function and every pass of a loop over directories is a step. *)
(* The pending invocations are kept in `work`, first to run first; NoDir   *)
(* in the work of a drawing phase stands for the closing of a cluster.     *)

InheritedUsedDirs ==
  [d \in 1..5 |-> CASE d = 2 -> <<addFileDep(NewUsedDir(5), TRUE, FALSE)>>
                    [] d = 3 -> <<addFileDep(NewUsedDir(5), FALSE, FALSE)>>
                    [] OTHER -> <<>>]

Usages == {[d \in 1..5 |-> <<>>], ScenarioUsedDirs, InheritedUsedDirs}

Run(variant, dd, linkRelations) ==
  [variant |-> variant, dd |-> dd, linkRelations |-> linkRelations,
   phase |-> IF variant = "writeDotDirDepGraph" THEN "siblings" ELSE "getSuccessors",
   work |-> IF variant = "writeDotDirDepGraph" THEN <<>> ELSE subDirs(dd),
   successors |-> <<>>, dependees |-> <<>>, cur |-> NoDir, ancestors |-> <<>>,
   props |-> <<>>, out |-> <<>>, dirsInGraph |-> {dd}, reg |-> <<>>, deps |-> <<>>,
   usedDirsNotDrawn |-> [i \in 1..Len(usedDirs[dd]) |-> usedDirs[dd][i].dir],
   usedDirsDrawn |-> <<>>, n |-> 1]

Running == threads # <<>>

Finished == Running /\ threads[1].phase = "done"

StartRun(variant, dd, linkRelations) ==
  /\ gen.count = 0
  /\ threads = <<>>
  /\ threads' = <<Run(variant, dd, linkRelations)>>
  /\ UNCHANGED <<tree, maxSuccessor, maxAncestor, usedDirs, dirRelations, out, gen>>

\* one invocation of getSuccessors' loop body: the successor, then its sub-directories
getSuccessorsStep(run) ==
  IF run.work = <<>>
  THEN [run EXCEPT !.phase = "getDependees", !.work = Append(run.successors, run.dd)]
  ELSE [run EXCEPT !.successors = Append(@, Head(run.work)),
                   !.work = subDirs(Head(run.work)) \o Tail(run.work)]

\* one pass of getDependees' loop over the dependents
getDependeesStep(run) ==
  IF run.work = <<>>
  THEN LET dependeeDirectories == removeDuplicates(run.dependees)
       IN [run EXCEPT !.phase = "getTreeRootsLimited",
                      !.dependees = dependeeDirectories,
                      !.props = insertDefaults(run.dd :> Prop(FALSE, FALSE, FALSE, TRUE, FALSE),
                                               run.successors \o dependeeDirectories),
                      !.work = Append(dependeeDirectories, run.dd)]
  ELSE [run EXCEPT !.dependees = @ \o dependeesOf(<<Head(run.work)>>,
                                                   level(run.dd) - maxAncestor),
                   !.work = Tail(run.work)]

\* mutant: getTreeRootsLimited calls itself with the directory it was called with
sameDirectoryAgain(basedOnDirectory) == basedOnDirectory

\* the directory getTreeRootsLimited calls itself with
parentToInvestigate(basedOnDirectory) == parent(basedOnDirectory)

\* one invocation of getTreeRootsLimited; run.cur is its basedOnDirectory
getTreeRootsLimitedStep(run) ==
  IF run.cur = NoDir
  THEN IF run.work = <<>>
       THEN [run EXCEPT !.phase = "getDirRelations", !.work = Append(run.successors, run.dd)]
       ELSE [run EXCEPT !.cur = Head(run.work), !.work = Tail(run.work)]
  ELSE IF Contains(run.ancestors, run.cur) THEN [run EXCEPT !.cur = NoDir]
  ELSE
    LET marked == IF ~Contains(Append(run.successors, run.dd), run.cur)
                  THEN [run EXCEPT !.props = setIncomplete(@, run.cur)]
                  ELSE run
    IN IF parent(run.cur) = NoDir
       THEN [marked EXCEPT !.ancestors = Append(@, run.cur), !.cur = NoDir]
       ELSE IF level(run.dd) - level(parent(run.cur)) > maxAncestor
       THEN [marked EXCEPT !.props = setOrphaned(@, run.cur),
                           !.ancestors = Append(@, run.cur), !.cur = NoDir]
       ELSE [marked EXCEPT !.cur = parentToInvestigate(run.cur)]

\* one pass of getDirRelations' loop over the directories
getDirRelationsStep(run) ==
  IF run.work = <<>>
  THEN [run EXCEPT !.phase = "drawTrees", !.deps = removeDuplicates(run.deps),
                   !.work = run.ancestors]
  ELSE LET rr == IF isVisible(Head(run.work), level(run.dd))
                 THEN getDirRelationsFrom([reg |-> run.reg, relations |-> run.deps],
                                          Head(run.work), level(run.dd), 1)
                 ELSE [reg |-> run.reg, relations |-> run.deps]
       IN [run EXCEPT !.reg = rr.reg, !.deps = rr.relations, !.work = Tail(run.work)]

\* one pass of drawTrees' loop; a cluster puts its sub-directories and its closing first
drawTreesStep(run) ==
  IF run.work = <<>> THEN [run EXCEPT !.phase = "drawRelations", !.n = 1]
  ELSE
    LET directory == Head(run.work)
        rest == Tail(run.work)
    IN IF directory = NoDir
       THEN [run EXCEPT !.out = Append(@, CloseStmt), !.work = rest]
       ELSE IF directory \notin DOMAIN run.props THEN [run EXCEPT !.work = rest]
       ELSE IF subDirs(directory) = <<>>
       THEN [run EXCEPT !.out = Append(@, NodeStmt(directory, run.props[directory])),
                        !.work = rest]
       ELSE IF isAtLowerVisibilityBorder(directory, level(run.dd))
       THEN [run EXCEPT !.out = Append(@, NodeStmt(directory,
                                   [run.props[directory] EXCEPT !.isTruncated = TRUE])),
                        !.work = rest]
       ELSE [run EXCEPT !.out = @ \o <<ClusterStmt(directory, run.props[directory], FALSE),
                                       PlainStmt(directory)>>,
                        !.work = (subDirs(directory) \o <<NoDir>>) \o rest]

\* one pass of drawRelations' loop
drawRelationsStep(run) ==
  IF run.n > Len(run.deps) THEN [run EXCEPT !.phase = "done"]
  ELSE [run EXCEPT !.out = Append(@, drawRelations(run.reg, run.deps, run.linkRelations)[run.n]),
                   !.n = @ + 1]

\* writeDotDirDepGraph up to its call of drawTree: the cluster of the parent and
\* the used directories beside dd
drawSiblingsStep(run) ==
  LET dd == run.dd
      isSibling(usedDir) == dd # usedDir /\ parent(dd) = parent(usedDir)
      notSibling(usedDir) == ~isSibling(usedDir)
      siblings == SelectSeq(run.usedDirsNotDrawn, isSibling)
      st1 == IF parent(dd) # NoDir
             THEN [drawEach(openCluster(run, parent(dd),
                                        Prop(TRUE, parent(parent(dd)) # NoDir, FALSE, FALSE, FALSE),
                                        TRUE),
                            siblings, 1, FALSE)
                     EXCEPT !.usedDirsNotDrawn = SelectSeq(run.usedDirsNotDrawn, notSibling),
                            !.usedDirsDrawn = siblings]
             ELSE run
  IN [st1 EXCEPT !.phase = "drawTree", !.work = <<dd>>]

\* one invocation of drawTree; a cluster puts its sub-directories and its closing first
drawTreeStep(run) ==
  IF run.work = <<>> THEN [run EXCEPT !.phase = "peripherals"]
  ELSE
    LET directory == Head(run.work)
        rest == [run EXCEPT !.work = Tail(run.work)]
        isTreeRoot == directory = run.dd
    IN IF directory = NoDir THEN [rest EXCEPT !.out = Append(@, CloseStmt)]
       ELSE IF ~isCluster(directory)
       THEN getDependencies(
              drawDirectory(rest, directory, Prop(FALSE, FALSE, FALSE, isTreeRoot, FALSE)),
              directory, TRUE)
       ELSE IF isAtLowerVisibilityBorder(directory, level(run.dd))
       THEN getDependencies(
              drawDirectory(rest, directory, Prop(FALSE, FALSE, TRUE, isTreeRoot, FALSE)),
              directory, TRUE)
       ELSE [getDependencies(
               openCluster(rest, directory, Prop(FALSE, FALSE, FALSE, isTreeRoot, FALSE), FALSE),
               directory, FALSE)
               EXCEPT !.work = (subDirs(directory) \o <<NoDir>>) \o Tail(run.work)]

\* writeDotDirDepGraph after drawTree: the parent's cluster is closed and the
\* other used directories are drawn
drawPeripheralsStep(run) ==
  LET dd == run.dd
      isPeripheral(usedDir) == sharesParentOnPath(dd, usedDir)
      notPeripheral(usedDir) == ~isPeripheral(usedDir)
      peripherals == SelectSeq(run.usedDirsNotDrawn, isPeripheral)
      closed == IF parent(dd) # NoDir THEN [run EXCEPT !.out = Append(@, CloseStmt)] ELSE run
  IN [drawEach(closed, peripherals, 1, TRUE)
        EXCEPT !.usedDirsNotDrawn = SelectSeq(run.usedDirsNotDrawn, notPeripheral),
               !.usedDirsDrawn = @ \o peripherals,
               !.phase = "relationEdges", !.n = 1]

\* one pass of the loop over the collected dependencies
relationEdgesStep(run) ==
  IF run.n > Len(run.deps) THEN [run EXCEPT !.phase = "done"]
  ELSE [run EXCEPT !.out = @ \o relationEdges([run EXCEPT !.deps = <<run.deps[run.n]>>],
                                              run.dd, run.usedDirsDrawn, run.linkRelations),
                   !.n = @ + 1]

PhaseStep(phase, next(_)) ==
  /\ Running
  /\ threads[1].phase = phase
  /\ threads' = <<next(threads[1])>>
  /\ UNCHANGED <<tree, maxSuccessor, maxAncestor, usedDirs, dirRelations, out, gen>>

GetSuccessorsStep == PhaseStep("getSuccessors", getSuccessorsStep)
GetDependeesStep == PhaseStep("getDependees", getDependeesStep)
GetTreeRootsLimitedStep == PhaseStep("getTreeRootsLimited", getTreeRootsLimitedStep)
GetDirRelationsStep == PhaseStep("getDirRelations", getDirRelationsStep)
DrawTreesStep == PhaseStep("drawTrees", drawTreesStep)
DrawRelationsStep == PhaseStep("drawRelations", drawRelationsStep)
DrawSiblingsStep == PhaseStep("siblings", drawSiblingsStep)
DrawTreeStep == PhaseStep("drawTree", drawTreeStep)
DrawPeripheralsStep == PhaseStep("peripherals", drawPeripheralsStep)
RelationEdgesStep == PhaseStep("relationEdges", relationEdgesStep)

Step ==
  \/ GetSuccessorsStep \/ GetDependeesStep \/ GetTreeRootsLimitedStep
  \/ GetDirRelationsStep \/ DrawTreesStep \/ DrawRelationsStep
  \/ DrawSiblingsStep \/ DrawTreeStep \/ DrawPeripheralsStep \/ RelationEdgesStep

InitSteps ==
  /\ tree \in Trees
  /\ maxSuccessor \in (-MaxLimit)..MaxLimit
  /\ maxAncestor \in (-MaxLimit)..MaxLimit
  /\ usedDirs \in Usages
  /\ dirRelations = <<>>
  /\ out = <<>>
  /\ gen = NoGen
  /\ threads = <<>>

NextSteps ==
  \/ \E variant \in {"writeDotDirDepGraph", "writeDotDirDependencyGraph"},
        dd \in Dirs, linkRelations \in BOOLEAN : StartRun(variant, dd, linkRelations)
  \/ Step

\* the generation is sequential code which runs until it returns
SpecSteps == InitSteps /\ [][NextSteps]_vars /\ WF_vars(Step)

\* the calls taken one by one give the output of the function taken as a whole
StepsAgree ==
  Finished =>
    threads[1].out =
      IF threads[1].variant = "writeDotDirDepGraph"
      THEN writeDotDirDepGraph(<<>>, threads[1].dd, threads[1].linkRelations).out
      ELSE writeDotDirDependencyGraph(<<>>, threads[1].dd, threads[1].linkRelations).out

(* C15: for every finite acyclic tree, any usage and any limits a          *)
(* generation terminates: successor collection, dependee collection,       *)
(* tree-root resolution, tree drawing and edge emission each finish after  *)
(* finitely many steps.                                                    *)
GenerationTerminates == Running ~> Finished

\* a generation which collected successors and dependees and drew clusters and edges returned
FinishedAfterEveryPhase ==
  /\ Finished
  /\ threads[1].variant = "writeDotDirDependencyGraph"
  /\ Len(threads[1].successors) >= 2
  /\ threads[1].dependees # <<>>
  /\ \E i \in 1..Len(threads[1].out) : threads[1].out[i].kind = "cluster"
  /\ \E i \in 1..Len(threads[1].out) : threads[1].out[i].kind = "edge"

----------------------------------------------------------------------------
\* the original directory tree: ON and its successors
ODT == {ON} \cup successorsOf(ON)

\* d is drawn as at most one node, not as a cluster, and without any successor
NotRecursedInto(d) ==
  /\ d \notin ClusterDirs
  /\ Cardinality(NodesOf(d)) <= 1
  /\ DrawnDirs \cap successorsOf(d) = {}

----------------------------------------------------------------------------
\* the relations collected by the last generation, as indices of the registry
Collected ==
  IF ByDepGraph THEN {gen.dependencies[k].relation : k \in 1..Len(gen.dependencies)}
  ELSE {gen.relations[k] : k \in 1..Len(gen.relations)}

(* C17: no dependency from a directory outside the ODT is analysed: the    *)
(* source of every emitted edge, of every collected relation and of every  *)
(* record the generation added to the registry is ON or a successor of ON. *)
EdgesLeaveOriginalTree ==
  Generated =>
    /\ \A i \in Edges : out[i].dir \in ODT
    /\ \A r \in Collected : dirRelations[r].src \in ODT
    /\ \A r \in (gen.regBefore + 1)..Len(dirRelations) : dirRelations[r].src \in ODT

\* a drawn directory outside the ODT uses another drawn directory, and an edge of
\* the ODT is drawn
DrawnDependeeUsesDrawn ==
  /\ Generated
  /\ Edges # {}
  /\ \E d \in DrawnDirs \ ODT : \E i \in 1..Len(usedDirs[d]) :
       /\ usedDirs[d][i].dir \in DrawnDirs
       /\ NodesOf(d) # {}

----------------------------------------------------------------------------
\* the edge candidates writeDotDirDepGraph collected, in the order of collection
Candidates == 1..Len(gen.dependencies)

CandidateSource(k) == dirRelations[gen.dependencies[k].relation].src

CandidateDestination(k) == destination(dirRelations[gen.dependencies[k].relation]).dir

\* the directories which have a node of their own in the output: a box node, or
\* the plain text node of a cluster
DrawnAtAll == {out[i].dir : i \in StmtsOf({"node", "plain"})}

\* the used directories drawn as nodes beside the tree of ON
DrawnBeside == {out[i].dir : i \in {j \in StmtsOf({"node"}) : out[j].dir \notin ODT}}

PassesFilter(k) ==
  \/ CandidateDestination(k) \in DrawnBeside
  \/ /\ CandidateDestination(k) \in DrawnAtAll
     /\ \/ ~gen.dependencies[k].inherited
        \/ level(CandidateDestination(k)) = level(ON) + maxSuccessor

\* the sequence of <<source, destination>> of the candidates from k on which pass
RECURSIVE PassingFrom(_)
PassingFrom(k) ==
  IF k > Len(gen.dependencies) THEN <<>>
  ELSE (IF PassesFilter(k) THEN << <<CandidateSource(k), CandidateDestination(k)>> >> ELSE <<>>)
         \o PassingFrom(k + 1)

\* the sequence of <<source, destination>> of the emitted edges from statement i on
RECURSIVE EmittedFrom(_)
EmittedFrom(i) ==
  IF i > Len(out) THEN <<>>
  ELSE (IF out[i].kind = "edge" THEN << <<out[i].dir, out[i].dst>> >> ELSE <<>>)
         \o EmittedFrom(i + 1)

\* the filter when the cluster of the parent of ON counts as drawn
PassesFilterOfDrawn(k) ==
  \/ CandidateDestination(k) \in DrawnBeside
  \/ /\ CandidateDestination(k) \in DrawnDirs
     /\ \/ ~gen.dependencies[k].inherited
        \/ level(CandidateDestination(k)) = level(ON) + maxSuccessor

(* C18 as stated: a collected edge candidate is emitted if and only if its *)
(* destination was drawn as a sibling-level dependee node, or its          *)
(* destination was drawn at all, as a node or as a cluster, and the        *)
(* candidate is not flagged fully dependee-inherited or the destination's  *)
(* level equals ON.level + the successor limit.                            *)
FinalEdgeFilterOfDrawn ==
  (Generated /\ ByDepGraph) =>
    \A k \in Candidates :
      PassesFilterOfDrawn(k) <=>
        \E i \in Edges : out[i].dir = CandidateSource(k) /\ out[i].dst = CandidateDestination(k)

(* C18: writeDotDirDepGraph emits a collected edge candidate if and only   *)
(* if its destination was drawn as a node beside the tree of ON, or its    *)
(* destination has a node of its own in the graph (a box node or the plain *)
(* text node of a cluster, which the cluster of the parent of ON lacks)    *)
(* and the candidate is not flagged fully dependee-inherited or the        *)
(* destination lies at level ON.level + the successor limit; every other   *)
(* candidate is dropped, and the edges are the passing candidates in the   *)
(* order of collection.                                                    *)
FinalEdgeFilter ==
  (Generated /\ ByDepGraph) =>
    /\ EmittedFrom(1) = PassingFrom(1)
    /\ DrawnBeside = {gen.usedDirsDrawn[k] : k \in 1..Len(gen.usedDirsDrawn)}
    /\ DrawnAtAll = gen.dirsInGraph

\* one flagged candidate with a drawn destination is dropped and another flagged
\* candidate is emitted
FlaggedCandidateDroppedAndEmitted ==
  /\ Generated
  /\ ByDepGraph
  /\ \E k \in Candidates :
       /\ gen.dependencies[k].inherited
       /\ CandidateDestination(k) \in DrawnAtAll
       /\ ~PassesFilter(k)
  /\ \E k \in Candidates : gen.dependencies[k].inherited /\ PassesFilter(k)

----------------------------------------------------------------------------
\* the candidates collected for dependent d from candidate k on, each as the used
\* directory and the flag it is paired with
RECURSIVE CandidatesOfFrom(_, _)
CandidatesOfFrom(d, k) ==
  IF k > Len(gen.dependencies) THEN <<>>
  ELSE (IF CandidateSource(k) = d
        THEN <<[dir |-> CandidateDestination(k), inherited |-> gen.dependencies[k].inherited]>>
        ELSE <<>>) \o CandidatesOfFrom(d, k + 1)

\* one candidate per UsedDirectory of d from entry i on which is kept
RECURSIVE KeptEntriesFrom(_, _, _)
KeptEntriesFrom(d, isLeaf, i) ==
  IF i > Len(usedDirs[d]) THEN <<>>
  ELSE (IF isLeaf \/ ~isAllDependentsInherited(usedDirs[d][i])
        THEN <<[dir |-> usedDirs[d][i].dir,
                inherited |-> isAllDependeesInherited(usedDirs[d][i], isLeaf)]>>
        ELSE <<>>) \o KeptEntriesFrom(d, isLeaf, i + 1)

\* the directories drawTree visited: the drawn part of the ODT
Visited == ODT \cap gen.dirsInGraph

(* C19: getDependencies(d, isLeaf) yields exactly one candidate per        *)
(* UsedDirectory u of d for which isLeaf holds or u is not fully           *)
(* dependent-inherited, each paired with u.isAllDependeesInherited(isLeaf):*)
(* a cluster drawn within the limit omits exactly its fully                *)
(* dependent-inherited entries, a leaf or truncated node keeps all.        *)
CandidatesPerUsedDirectory ==
  (Generated /\ ByDepGraph) =>
    /\ \A d \in Visited :
         /\ CandidatesOfFrom(d, 1) = KeptEntriesFrom(d, d \notin ClusterDirs, 1)
         /\ d \notin ClusterDirs => Len(CandidatesOfFrom(d, 1)) = Len(usedDirs[d])
         /\ d \in ClusterDirs =>
              Len(CandidatesOfFrom(d, 1)) =
                Cardinality({i \in 1..Len(usedDirs[d]) : ~isAllDependentsInherited(usedDirs[d][i])})
    /\ \A d \in Dirs \ Visited : CandidatesOfFrom(d, 1) = <<>>

\* a cluster within the limit omitted a fully dependent-inherited entry and a
\* truncated node kept one
InheritedEntryOmittedAndKept ==
  /\ Generated
  /\ ByDepGraph
  /\ \E d \in Visited \cap ClusterDirs : \E i \in 1..Len(usedDirs[d]) :
       /\ isAllDependentsInherited(usedDirs[d][i])
       /\ \A k \in Candidates :
            CandidateSource(k) = d => CandidateDestination(k) # usedDirs[d][i].dir
  /\ \E d \in Visited \ ClusterDirs : \E i \in 1..Len(usedDirs[d]) :
       /\ isAllDependentsInherited(usedDirs[d][i])
       /\ \E k \in Candidates :
            CandidateSource(k) = d /\ CandidateDestination(k) = usedDirs[d][i].dir

----------------------------------------------------------------------------
\* the directories with children at the successor border of the ODT
AtBorder == {d \in ODT : isCluster(d) /\ level(d) = level(ON) + maxSuccessor}

(* C20: a directory of the ODT with children whose level equals ON.level + *)
(* the successor limit is emitted as one node marked isTruncated; none of  *)
(* its descendants is visited or drawn, and no edge candidate and no edge  *)
(* has a descendant of it as source; writeDotDirDepGraph collects all of   *)
(* its own UsedDirectory entries as edge candidates.                       *)
TruncatedAtBorder ==
  Generated =>
    \A d \in AtBorder :
      /\ Cardinality(NodesOf(d)) = 1
      /\ \A i \in NodesOf(d) : out[i].prop.isTruncated
      /\ \A i \in StmtsOf({"cluster", "plain"}) : out[i].dir # d
      /\ \A s \in successorsOf(d) :
           /\ \A i \in StmtsOf({"node", "cluster", "plain"}) : out[i].dir # s
           /\ \A i \in Edges : out[i].dir # s
           /\ \A r \in Collected : dirRelations[r].src # s
           /\ ByDepGraph => s \notin gen.dirsInGraph
      /\ ByDepGraph =>
           /\ Len(CandidatesOfFrom(d, 1)) = Len(usedDirs[d])
           /\ \A i \in 1..Len(usedDirs[d]) : CandidatesOfFrom(d, 1)[i].dir = usedDirs[d][i].dir

\* writeDotDirDepGraph truncated a directory which uses a directory only through
\* its sub-directories, and a sub-directory of it uses a directory too
TruncatedWithUsingDescendant ==
  /\ Generated
  /\ ByDepGraph
  /\ \E d \in AtBorder :
       /\ \E i \in 1..Len(usedDirs[d]) : isAllDependentsInherited(usedDirs[d][i])
       /\ \E s \in successorsOf(d) : usedDirs[s] # <<>>
       /\ Len(CandidatesOfFrom(d, 1)) > 0

----------------------------------------------------------------------------
\* the directories which must have a default entry before the tree roots are resolved
NeedDefault == ODT \cup Dependees \cup UNION {successorsOf(d) : d \in Dependees}

(* C21: before tree-root resolution starts, the property map of            *)
(* writeDotDirDependencyGraph has an entry for every directory of the ODT, *)
(* for every dependee and for every successor of a dependee.               *)
DefaultsBeforeRoots ==
  (Generated /\ ByDependencyGraph) => NeedDefault \subseteq DOMAIN gen.defaults

----------------------------------------------------------------------------
(* The resolution of tree roots, one candidate at a time: the loop of      *)
(* getTreeRootsLimited over basedOnDirectories, for any list of candidates *)

MaxCandidates == 3

InitRoots ==
  /\ tree \in Trees
  /\ maxSuccessor = 0
  /\ maxAncestor \in 0..MaxLimit
  /\ usedDirs = [d \in DOMAIN tree |-> <<>>]
  /\ dirRelations = <<>>
  /\ out = <<>>
  /\ gen \in {[NoGen EXCEPT !.dd = d,
                             !.variant = "writeDotDirDependencyGraph",
                             !.resolved = d :> Prop(FALSE, FALSE, FALSE, TRUE, FALSE)] :
                d \in DOMAIN tree}
  /\ threads = <<>>

\* one pass of the loop: gen.count candidates have been resolved so far
GetTreeRootsLimited(basedOnDirectory) ==
  /\ gen.count < MaxCandidates
  /\ LET originalDirectoryTree == Append(getSuccessors(subDirs(gen.dd)), gen.dd)
         rs == getTreeRootsLimited([ancestors |-> gen.roots, props |-> gen.resolved],
                                   basedOnDirectory, originalDirectoryTree, level(gen.dd))
     IN gen' = [gen EXCEPT !.count = @ + 1, !.roots = rs.ancestors, !.resolved = rs.props]
  /\ UNCHANGED <<tree, maxSuccessor, maxAncestor, usedDirs, dirRelations, out, threads>>

NextRoots == \E basedOnDirectory \in Dirs : GetTreeRootsLimited(basedOnDirectory)

SpecRoots == InitRoots /\ [][NextRoots]_vars

Registered == {gen.roots[i] : i \in 1..Len(gen.roots)}

\* the walk from x towards the root of the tree stops at x
StopsAt(x) ==
  \/ x \in Registered
  \/ parent(x) = NoDir
  \/ level(gen.dd) - level(parent(x)) > maxAncestor

\* the directory at which the walk from candidate x stops
RECURSIVE WalkEnd(_)
WalkEnd(x) == IF StopsAt(x) THEN x ELSE WalkEnd(parent(x))

(* C22: tree-root registration is idempotent: whatever candidates are      *)
(* resolved in whatever order, the list of tree roots contains every       *)
(* directory at most once; resolving a candidate whose walk reaches a      *)
(* registered root leaves the list as it is, and any other candidate       *)
(* appends the one directory its walk stops at.                            *)
RegistrationIdempotent ==
  [][\A c \in Dirs :
       GetTreeRootsLimited(c) =>
         /\ \A i, j \in 1..Len(gen'.roots) : gen'.roots[i] = gen'.roots[j] => i = j
         /\ gen'.roots = IF WalkEnd(c) \in Registered THEN gen.roots
                         ELSE Append(gen.roots, WalkEnd(c))]_vars

\* more candidates were resolved than roots were registered, among them two
\* candidates which were registered
CandidateAddedNothing ==
  /\ gen.count > Len(gen.roots)
  /\ Len(gen.roots) >= 2

----------------------------------------------------------------------------
\* the parent of x lies beyond the ancestor limit
ParentTooFarUp(x) == parent(x) # NoDir /\ level(gen.dd) - level(parent(x)) > maxAncestor

\* the directories the walk from candidate x visits
RECURSIVE Walk(_)
Walk(x) == IF StopsAt(x) THEN {x} ELSE {x} \cup Walk(parent(x))

----------------------------------------------------------------------------
(* C24: a graph generation changes only the output and the relation        *)
(* registry: the directory tree, every UsedDirectory and the limits are    *)
(* the same after the generation as before, and every record the registry *)
(* held before is unchanged.                                               *)
GenerationFrame ==
  [][gen'.count > gen.count =>
       /\ tree' = tree
       /\ usedDirs' = usedDirs
       /\ maxSuccessor' = maxSuccessor
       /\ maxAncestor' = maxAncestor
       /\ Len(dirRelations') >= Len(dirRelations)
       /\ \A k \in 1..Len(dirRelations) : dirRelations'[k] = dirRelations[k]]_vars

\* a second generation added records to a registry which held records already
RegistryExtendedByLaterGeneration ==
  /\ gen.count >= 2
  /\ gen.regBefore > 0
  /\ Len(dirRelations) > gen.regBefore
  /\ out # <<>>

----------------------------------------------------------------------------
\* what the generator of the last generation writes for ON when the registry is empty
OutputOnEmptyRegistry ==
  IF ByDepGraph THEN writeDotDirDepGraph(<<>>, ON, gen.linkRelations).out
  ELSE writeDotDirDependencyGraph(<<>>, ON, gen.linkRelations).out

NotAnEdge(stmt) == stmt.kind # "edge"

EdgeStmtsOf(output) == {output[i] : i \in {k \in 1..Len(output) : output[k].kind = "edge"}}

NumEdgesOf(output) == Cardinality({k \in 1..Len(output) : output[k].kind = "edge"})

----------------------------------------------------------------------------
(* C26: every emitted edge has both endpoints drawn in the same            *)
(* generation: its source and its destination each have a node statement, *)
(* a box node or the plain text node of a cluster.                         *)
EdgeEndpointsDrawn ==
  Generated => \A i \in Edges : out[i].dir \in DrawnAtAll /\ out[i].dst \in DrawnAtAll

----------------------------------------------------------------------------
\* the used directories writeDotDirDepGraph drew beside the tree of ON
UsedDirsDrawn == {gen.usedDirsDrawn[k] : k \in 1..Len(gen.usedDirsDrawn)}

SiblingsDrawn == {d \in UsedDirsDrawn : parent(ON) # NoDir /\ parent(d) = parent(ON)}

PeripheralsDrawn == UsedDirsDrawn \ SiblingsDrawn

AncestorCluster == IF parent(ON) = NoDir THEN {} ELSE {parent(ON)}

\* the directories drawTree drew
TreeDrawn == gen.dirsInGraph \ UsedDirsDrawn

(* C27: in one generation no directory is emitted more than once: in       *)
(* writeDotDirDepGraph the directories drawn from the tree of ON, the      *)
(* sibling dependees, the peripheral dependees and the ancestor cluster    *)
(* are pairwise disjoint; in writeDotDirDependencyGraph no registered tree *)
(* root is an ancestor or a descendant of another registered root.         *)
EmittedOnce ==
  Generated =>
    /\ \A i, j \in StmtsOf({"node", "cluster"}) : out[i].dir = out[j].dir => i = j
    /\ ByDepGraph =>
         /\ TreeDrawn \subseteq ODT
         /\ TreeDrawn \cap UsedDirsDrawn = {}
         /\ SiblingsDrawn \cap PeripheralsDrawn = {}
         /\ AncestorCluster \cap (TreeDrawn \cup UsedDirsDrawn) = {}
         /\ \A i, j \in 1..Len(gen.usedDirsDrawn) :
              gen.usedDirsDrawn[i] = gen.usedDirsDrawn[j] => i = j
         /\ DrawnDirs = TreeDrawn \cup UsedDirsDrawn \cup AncestorCluster
    /\ ByDependencyGraph =>
         /\ \A i, j \in 1..Len(gen.roots) : gen.roots[i] = gen.roots[j] => i = j
         /\ \A i, j \in 1..Len(gen.roots) : gen.roots[i] \notin ancestorsOf(gen.roots[j])

\* writeDotDirDepGraph drew the ancestor cluster, a sibling and a peripheral
\* directory beside the tree of ON
AllGroupsDrawn ==
  /\ Generated
  /\ ByDepGraph
  /\ AncestorCluster # {}
  /\ SiblingsDrawn # {}
  /\ PeripheralsDrawn # {}
  /\ TreeDrawn # {}

----------------------------------------------------------------------------
(* C28: cluster boundaries are well nested: at every point of the output   *)
(* no more boundaries are closed than were opened, every opened boundary   *)
(* is closed at the end, and a directory is emitted between the opening    *)
(* and the closing of the cluster of C only if C is its parent or a        *)
(* further ancestor (the plain text node of C itself lies inside too);     *)
(* and it does lie inside the cluster of every ancestor drawn as cluster.  *)
ClustersWellNested ==
  Generated =>
    /\ \A k \in 1..(Len(out) + 1) : Balance(1, k) >= 0
    /\ Balance(1, Len(out) + 1) = 0
    /\ \A i \in StmtsOf({"node", "cluster"}) :
         \A c \in Dirs : InsideCluster(i, c) => c \in ancestorsOf(out[i].dir)
    /\ \A i \in StmtsOf({"plain"}) :
         \A c \in Dirs : InsideCluster(i, c) => c \in {out[i].dir} \cup ancestorsOf(out[i].dir)
    /\ \A i \in StmtsOf({"node", "cluster", "plain"}) :
         \A c \in ClusterDirs \cap ancestorsOf(out[i].dir) : InsideCluster(i, c)

\* a node lies inside two nested clusters and another node lies outside every cluster
NestedTwoDeep ==
  /\ Generated
  /\ \E i \in StmtsOf({"node"}) :
       /\ InsideCluster(i, parent(out[i].dir))
       /\ parent(parent(out[i].dir)) # NoDir
       /\ InsideCluster(i, parent(parent(out[i].dir)))
  /\ \E i \in StmtsOf({"node"}) : \A c \in Dirs : ~InsideCluster(i, c)

----------------------------------------------------------------------------
(* C29: for limits >= 0, ON is drawn exactly once in its generation and is *)
(* the only drawn directory whose property has isOriginal set: no          *)
(* successor, sibling, dependee or ancestor is marked original.            *)
OnlyOriginalIsON ==
  Generated =>
    /\ Cardinality({i \in StmtsOf({"node", "cluster"}) : out[i].dir = ON}) = 1
    /\ \A i \in StmtsOf({"node", "cluster"}) : out[i].prop.isOriginal <=> out[i].dir = ON

\* a successor, a sibling and an ancestor of ON are drawn beside ON
DrawnAroundOriginal ==
  /\ Generated
  /\ DrawnDirs \cap successorsOf(ON) # {}
  /\ DrawnDirs \cap ancestorsOf(ON) # {}
  /\ \E d \in DrawnDirs \ {ON} : parent(d) = parent(ON)
  /\ \E i \in StmtsOf({"cluster"}) : out[i].dir = ON /\ out[i].prop.isOriginal

----------------------------------------------------------------------------
(* C30: a drawn directory is marked isOrphaned if and only if it has a     *)
(* parent and that parent is not drawn in the same generation, neither as  *)
(* node nor as cluster.                                                    *)
OrphanedIffParentNotDrawn ==
  Generated =>
    \A i \in StmtsOf({"node", "cluster"}) :
      out[i].prop.isOrphaned <=>
        (parent(out[i].dir) # NoDir /\ parent(out[i].dir) \notin DrawnDirs)

\* an orphaned directory, a directory inside the cluster of its parent and a
\* directory without a parent are drawn
OrphanedAndNotOrphaned ==
  /\ Generated
  /\ \E i \in StmtsOf({"node", "cluster"}) : out[i].prop.isOrphaned
  /\ \E i \in StmtsOf({"node", "cluster"}) :
       ~out[i].prop.isOrphaned /\ parent(out[i].dir) \in DrawnDirs
  /\ \E i \in StmtsOf({"node", "cluster"}) :
       ~out[i].prop.isOrphaned /\ parent(out[i].dir) = NoDir

====
